---- MODULE Spec2Model ----
(***************************************************************************)
(* A model of cvd2img: the block-size search and the image assembler and   *)
(* partition table builder of src/disk.rs, the sparse normalizer and the   *)
(* artifact generators of src/components.rs, and the orchestrator of       *)
(* src/main.rs.                                                            *)
(*                                                                         *)
(* Unsigned 64-bit values that can wrap are written in two's complement:   *)
(* a negative integer x stands for the u64 value 2^64 + x.  The build      *)
(* profile decides what an overflowing subtraction or addition does: it    *)
(* panics with overflow checks (debug) and wraps without them (release).   *)
(***************************************************************************)
EXTENDS Integers, Sequences, FiniteSets, TLC

VARIABLES
    build,          \* "debug" (overflow checks) or "release" (wrapping)
    \* best_block_size, one loop iteration per step
    size, bs, bpc,
    \* create_disk_image and create_partitions
    components, idx, out_len, offsets, parts, written, buf_len, short_reads,
    ipc, entries, start_sector, ppc,
    \* create_vbmeta
    signed_len, vb_len, vpc,
    \* transform_sparse_images
    files, tmp_files, tool_calls, img, runs, tpc,
    \* create_disk_images
    started, completed, pc, res, tmp_dir_exists, tmp_dir_guard, nonzero_at

blockVars  == <<size, bs, bpc>>
imageVars  == <<components, idx, out_len, offsets, parts, written, buf_len,
                short_reads, ipc,
                entries, start_sector, ppc>>
vbVars     == <<signed_len, vb_len, vpc>>
sparseVars == <<files, tmp_files, tool_calls, img, runs, tpc>>
pipeVars   == <<started, completed, pc, res, tmp_dir_exists, tmp_dir_guard,
                nonzero_at>>
vars       == <<build, blockVars, imageVars, vbVars, sparseVars, pipeVars>>

Builds == {"debug", "release"}

Min(a, b) == IF a < b THEN a ELSE b

RECURSIVE SumSeq(_)
SumSeq(s) == IF s = <<>> THEN 0 ELSE Head(s) + SumSeq(Tail(s))

(***************************************************************************)
(* The parts of the state a specification does not use stay at rest.       *)
(***************************************************************************)
BlockIdle  == size = 0 /\ bs = 0 /\ bpc = "idle"
ImageIdle  == /\ components = <<>> /\ idx = 0 /\ out_len = 0 /\ offsets = <<>>
              /\ parts = <<>> /\ written = 0 /\ buf_len = 0 /\ short_reads = 0
              /\ ipc = "idle"
              /\ entries = <<>> /\ start_sector = 0 /\ ppc = "idle"
VbIdle     == signed_len = 0 /\ vb_len = 0 /\ vpc = "idle"
SparseIdle == /\ files = <<>> /\ tmp_files = <<>> /\ tool_calls = <<>>
              /\ img = 0 /\ runs = 0 /\ tpc = "idle"
PipeIdle   == /\ started = <<>> /\ completed = <<>> /\ pc = "idle" /\ res = "idle"
              /\ tmp_dir_exists = FALSE /\ tmp_dir_guard = FALSE
              /\ nonzero_at = 0

(***************************************************************************)
(* best_block_size (src/disk.rs:6-14)                                      *)
(***************************************************************************)
\* let mut bs = 1048576;
InitialBlockSize == 1048576

\* Sizes tried: every size up to MaxSmallSize and every m * 2^k up to 2^30.
MaxSmallSize == 40
MaxOddFactor == 5
SizeLimit == 2^30

BlockSizes ==
    (0..MaxSmallSize) \cup
    { s \in { m * (2^k) : m \in 1..MaxOddFactor, k \in 0..28 } : s <= SizeLimit } \cup
    { 2^k : k \in 0..30 }

\* if size > bs && (size % bs) == 0: the remainder is only evaluated when
\* size > bs, and a zero divisor panics.
BbsPanics(sz, b)  == sz > b /\ b = 0
BbsReturns(sz, b) == sz > b /\ b # 0 /\ sz % b = 0

\* The whole loop: a block size, a panic (remainder by zero) or no return at
\* all (bs has reached 0 and 0 / 2 = 0 repeats the same iteration forever).
RECURSIVE best_block_size_from(_, _)
best_block_size_from(sz, b) ==
    IF BbsPanics(sz, b) THEN [kind |-> "panic", bs |-> 0]
    ELSE IF BbsReturns(sz, b) THEN [kind |-> "ret", bs |-> b]
    ELSE IF b = 0 THEN [kind |-> "hang", bs |-> 0]
    ELSE best_block_size_from(sz, b \div 2)

best_block_size(sz) == best_block_size_from(sz, InitialBlockSize)

BlockInit ==
    /\ build \in Builds
    /\ size \in BlockSizes
    /\ bs = InitialBlockSize
    /\ bpc = "loop"
    /\ ImageIdle /\ VbIdle /\ SparseIdle /\ PipeIdle

\* return bs.try_into().unwrap();
BbsReturn ==
    /\ bpc = "loop"
    /\ BbsReturns(size, bs)
    /\ bpc' = "returned"
    /\ UNCHANGED <<build, size, bs, imageVars, vbVars, sparseVars, pipeVars>>

\* size % 0: "attempt to calculate the remainder with a divisor of zero"
BbsPanic ==
    /\ bpc = "loop"
    /\ BbsPanics(size, bs)
    /\ bpc' = "panicked"
    /\ UNCHANGED <<build, size, bs, imageVars, vbVars, sparseVars, pipeVars>>

\* bs /= 2;
BbsHalve ==
    /\ bpc = "loop"
    /\ ~BbsReturns(size, bs)
    /\ ~BbsPanics(size, bs)
    /\ bs' = bs \div 2
    /\ UNCHANGED <<build, size, bpc, imageVars, vbVars, sparseVars, pipeVars>>

BlockNext == BbsReturn \/ BbsPanic \/ BbsHalve

SpecBlock == BlockInit /\ [][BlockNext]_vars

IsPowerOfTwo(n) == \E k \in 0..30 : n = 2^k

\* C3: for every size s with 1 <= s <= 2^30, best_block_size(s) returns a
\* value b that divides s, is a power of two <= 2^20, and is < s when s > 1.
\* The call has ended when the loop is left; it must have ended by returning.
C3_BlockSizeContract ==
    (bpc # "loop" /\ 1 <= size /\ size <= SizeLimit) =>
        /\ bpc = "returned"
        /\ size % bs = 0
        /\ IsPowerOfTwo(bs)
        /\ bs <= 1048576
        /\ (size > 1 => bs < size)

\* C9: the halving loop ends for every size from 0 upward: it returns no
\* later than when the candidate block size reaches 1 (the candidate never
\* drops to 0 inside the loop) and it never aborts.
C9_LoopTerminatesByOne ==
    /\ bpc # "panicked"
    /\ (bpc = "loop" => bs >= 1)

(***************************************************************************)
(* create_disk_image (src/disk.rs:16-68)                                   *)
(***************************************************************************)
\* let zeroes = vec![0; 20480];
ReservedBytes == 20480

\* Component lists tried: up to MaxComponents entries, each a blank region
\* ("blank:<size>") or a source file, of a size in ComponentSizes.  A read
\* delivers the full buffer (or what is left of the file); up to MaxShortReads
\* reads of one assembly deliver fewer bytes, any count up to MaxShortRead.
MaxComponents == 2
MaxShortRead == 2
MaxShortReads == 1
ComponentSizes == {0, 1, 2, 3, 4, 6, 512, 768, 1024, 1536, 2048}

ComponentSpecs == [blank : BOOLEAN, size : ComponentSizes]

ComponentLists ==
    UNION { [1..n -> ComponentSpecs] : n \in 0..MaxComponents }

\* src.read(&mut buf): at least one byte while bytes remain, at most the
\* buffer or what is left of the file.
ReadResults(buflen, remaining, short_allowed) ==
    { n \in 1..Min(buflen, remaining) :
        n = Min(buflen, remaining) \/ (short_allowed /\ n <= MaxShortRead) }

ImageInit ==
    /\ build \in Builds
    /\ components \in ComponentLists
    /\ idx = 1
    /\ out_len = 0
    /\ offsets = <<>>
    /\ parts = <<>>
    /\ written = 0
    /\ buf_len = 0
    /\ short_reads = 0
    /\ ipc = "create"
    /\ entries = <<>>
    /\ start_sector = 0
    /\ ppc = "idle"
    /\ BlockIdle /\ VbIdle /\ SparseIdle /\ PipeIdle

imageRest == <<build, blockVars, vbVars, sparseVars, pipeVars>>

\* File::create(out_file)?; out.write_all(&zeroes)?;
WriteHeader ==
    /\ ipc = "create"
    /\ out_len' = ReservedBytes
    /\ ipc' = "next"
    /\ UNCHANGED <<components, idx, offsets, parts, written, buf_len,
                   short_reads, entries, start_sector, ppc, imageRest>>

\* The head of one iteration of `for (image, name) in components`: the size
\* (declared, or metadata.len()), best_block_size(size), the buffer.
BeginComponent ==
    /\ ipc = "next"
    /\ idx <= Len(components)
    /\ LET r == best_block_size(components[idx].size) IN
         /\ ipc' = CASE r.kind = "ret"   -> "copy"
                     [] r.kind = "panic" -> "panic"
                     [] OTHER            -> "hang"
         /\ buf_len' = r.bs
         /\ offsets' = IF r.kind = "ret" THEN Append(offsets, out_len) ELSE offsets
    /\ written' = 0
    /\ UNCHANGED <<components, idx, out_len, parts, short_reads, entries,
                   start_sector, ppc, imageRest>>

\* parts.push((*image, *name, size)) once written >= size.
AfterChunk(w) ==
    IF w >= components[idx].size
    THEN /\ parts' = Append(parts, components[idx].size)
         /\ idx' = idx + 1
         /\ ipc' = "next"
    ELSE UNCHANGED <<parts, idx, ipc>>

\* Blank region: out.write_all(&buf)?; written += bs;
CopyBlank ==
    /\ ipc = "copy"
    /\ components[idx].blank
    /\ out_len' = out_len + buf_len
    /\ written' = written + buf_len
    /\ AfterChunk(written + buf_len)
    /\ UNCHANGED <<components, offsets, buf_len, short_reads, entries, start_sector, ppc,
                   imageRest>>

\* The bytes one iteration of the file loop appends to the output:
\* out.write_all(&buf) writes the whole buffer, whatever read() delivered.
FileChunkWritten(buflen, n) == buflen

\* Source file: let n = src.read(&mut buf)?; out.write_all(&buf)?; written += n;
CopyFile ==
    /\ ipc = "copy"
    /\ ~components[idx].blank
    /\ LET remaining == components[idx].size - written IN
       \E n \in ReadResults(buf_len, remaining, short_reads < MaxShortReads) :
         /\ out_len' = out_len + FileChunkWritten(buf_len, n)
         /\ written' = written + n
         /\ short_reads' = IF n < Min(buf_len, remaining)
                            THEN short_reads + 1 ELSE short_reads
         /\ AfterChunk(written + n)
    /\ UNCHANGED <<components, offsets, buf_len, entries, start_sector, ppc,
                   imageRest>>

\* out.write_all(&zeroes)?; Ok(parts)
WriteFooter ==
    /\ ipc = "next"
    /\ idx > Len(components)
    /\ out_len' = out_len + ReservedBytes
    /\ ipc' = "done"
    /\ UNCHANGED <<components, idx, offsets, parts, written, buf_len,
                   short_reads, entries, start_sector, ppc, imageRest>>

\* Any `?` of the function: an open, metadata, read or write fails.
ImageIoError ==
    /\ ipc \in {"create", "next", "copy"}
    /\ ipc' = "err"
    /\ UNCHANGED <<components, idx, out_len, offsets, parts, written, buf_len,
                   short_reads, entries, start_sector, ppc, imageRest>>

(***************************************************************************)
(* create_partitions (src/disk.rs:70-99)                                   *)
(***************************************************************************)
SectorSize == 512

\* let mut start_sector = 40;
FirstSector == 40

\* let len: i64 = (((p.2 - 1) / 512) + 1).try_into().unwrap();
PartLenFloor(sz) == (sz \div SectorSize) + 1
PartLen(sz) == ((sz - 1) \div SectorSize) + 1

\* Device::new(out_file)?; Disk::new_fresh(..)?; (main.rs calls it with the
\* parts create_disk_image returned, on the same file)
PartBegin ==
    /\ ipc = "done"
    /\ ppc = "idle"
    /\ ppc' = "loop"
    /\ start_sector' = FirstSector
    /\ UNCHANGED <<components, idx, out_len, offsets, parts, written, buf_len,
                   short_reads, ipc, entries, imageRest>>

\* One iteration of `for p in parts`.  p.2 - 1 with p.2 = 0 overflows: a
\* panic with overflow checks; wrapped, a length of 2^55 sectors, which no
\* backing file holds, so that add_partition fails.
PartAdd ==
    /\ ppc = "loop"
    /\ Len(entries) < Len(parts)
    /\ LET p == parts[Len(entries) + 1] IN
         IF p = 0
         THEN /\ ppc' = IF build = "debug" THEN "panic" ELSE "err"
              /\ UNCHANGED <<entries, start_sector>>
         ELSE /\ entries' = Append(entries,
                     [start |-> start_sector,
                      end   |-> start_sector + PartLen(p) - 1,
                      name  |-> Len(entries) + 1])
              /\ start_sector' = start_sector + PartLen(p)
              /\ UNCHANGED ppc
    /\ UNCHANGED <<components, idx, out_len, offsets, parts, written, buf_len,
                   short_reads, ipc, imageRest>>

\* disk.commit()
PartCommit ==
    /\ ppc = "loop"
    /\ Len(entries) = Len(parts)
    /\ ppc' = "done"
    /\ UNCHANGED <<components, idx, out_len, offsets, parts, written, buf_len,
                   short_reads, ipc, entries, start_sector, imageRest>>

\* Any `?` of the function: the device, the table, add_partition or the
\* commit fails.
PartError ==
    /\ ppc \in {"idle", "loop"}
    /\ ipc = "done"
    /\ ppc' = "err"
    /\ UNCHANGED <<components, idx, out_len, offsets, parts, written, buf_len,
                   short_reads, ipc, entries, start_sector, imageRest>>

ImageNext ==
    \/ WriteHeader \/ BeginComponent \/ CopyBlank \/ CopyFile \/ WriteFooter
    \/ ImageIoError
    \/ PartBegin \/ PartAdd \/ PartCommit \/ PartError

SpecImage == ImageInit /\ [][ImageNext]_vars

\* C1: when create_disk_image returns Ok, the output file's length is
\* 20480 + the sum of the byte sizes it returns + 20480, whatever the reads
\* delivered.
C1_FileLengthIsSum ==
    ipc = "done" => out_len = 20480 + SumSeq(parts) + 20480

CeilSectors(sz) == (sz + 511) \div 512

\* C2: the partition entries are contiguous and increasing: entry 1 starts
\* at sector 40, each entry ends at start + ceil(byteSize / 512) - 1, the
\* next starts one sector later; entries are created in layout order, one
\* per laid-out partition once the table is committed.
C2_EntriesContiguous ==
    /\ Len(entries) <= Len(parts)
    /\ (ppc = "done" => Len(entries) = Len(parts))
    /\ \A i \in 1..Len(entries) :
         /\ entries[i].name = i
         /\ entries[i].start = (IF i = 1 THEN 40 ELSE entries[i - 1].end + 1)
         /\ entries[i].end = entries[i].start + CeilSectors(parts[i]) - 1
         /\ entries[i].start <= entries[i].end

C2_Witness ==
    /\ ppc = "done"
    /\ Len(entries) >= 2
    /\ parts[1] % 512 # 0
    /\ parts[2] % 512 = 0
    /\ entries[2].end > entries[2].start

\* C10: after create_disk_image and create_partitions on the same file,
\* every entry starts where its payload was written, which is 20480 + the
\* sizes before it, and the last entry ends before the footer reservation.
C10_EntriesMatchPayload ==
    ppc = "done" =>
        /\ \A i \in 1..Len(entries) :
             /\ entries[i].start * 512 = offsets[i]
             /\ offsets[i] = 20480 + SumSeq(SubSeq(parts, 1, i - 1))
        /\ (Len(entries) > 0 =>
              (entries[Len(entries)].end + 1) * 512 <= out_len - 20480)

(***************************************************************************)
(* create_vbmeta (src/components.rs:143-188)                               *)
(***************************************************************************)
\* The literal of the padding length, 65535 - len + 1.
PadMax == 65535

\* Lengths the signing tool may leave: within MaxPadOffset bytes above or
\* below each multiple of 65536 up to MaxChunks of them.
MaxChunks == 2
MaxPadOffset == 12

SignedLengths ==
    { q * (PadMax + 1) + r : q \in 0..MaxChunks,
                             r \in (0..MaxPadOffset) \cup
                                   ((PadMax + 1 - MaxPadOffset)..PadMax) }

\* vec![0; (65535 - metdata.len() + 1).try_into().unwrap()] in u64.
\* 65535 - len overflows for len > 65535: a panic with overflow checks;
\* wrapped it is 2^64 + (65535 - len), and adding 1 wraps 2^64 - 1 to 0.
\* A wrapped length near 2^64 is more than a Vec can hold: capacity overflow.
PadLen(b, len) ==
    LET d == PadMax - len IN
    IF d < 0 /\ b = "debug" THEN [kind |-> "panic", len |-> 0]
    ELSE IF d + 1 < 0 THEN [kind |-> "panic", len |-> 0]
    ELSE [kind |-> "ok", len |-> d + 1]

VbInit ==
    /\ build \in Builds
    /\ signed_len \in SignedLengths
    /\ vb_len = 0
    /\ vpc = "start"
    /\ BlockIdle /\ ImageIdle /\ SparseIdle /\ PipeIdle

vbRest == <<build, blockVars, imageVars, sparseVars, pipeVars>>

\* Command::new(avbtool).args(make_vbmeta_image ..).output(): a tool that
\* cannot be started ends the process; one that ran leaves the signed file.
\* Its exit status is not looked at.
VbRunTool ==
    /\ vpc = "start"
    /\ \E started_ok \in BOOLEAN :
         IF started_ok
         THEN vb_len' = signed_len /\ vpc' = "signed"
         ELSE vb_len' = vb_len /\ vpc' = "exit"
    /\ UNCHANGED <<signed_len, vbRest>>

\* open, metadata, seek to the end, write the padding, Ok(())
VbPad ==
    /\ vpc = "signed"
    /\ LET r == PadLen(build, vb_len) IN
         /\ vpc' = r.kind
         /\ vb_len' = vb_len + r.len
    /\ UNCHANGED <<signed_len, vbRest>>

\* Any `?` of the function: the open, metadata, seek or write fails.
VbIoError ==
    /\ vpc = "signed"
    /\ vpc' = "err"
    /\ UNCHANGED <<signed_len, vb_len, vbRest>>

VbNext == VbRunTool \/ VbPad \/ VbIoError

SpecVbmeta == VbInit /\ [][VbNext]_vars

\* C4: for every signed length L, multiples of 65536 and L >= 65536
\* included, once create_vbmeta has appended its padding the file length is
\* the smallest multiple of 65536 strictly greater than L: the pad length is
\* 65536 - (L mod 65536) and is never zero.
C4_PaddedToNextMultiple ==
    vpc = "ok" =>
        /\ vb_len = ((signed_len \div 65536) + 1) * 65536
        /\ vb_len - signed_len = 65536 - (signed_len % 65536)
        /\ vb_len - signed_len > 0

(***************************************************************************)
(* transform_sparse_images (src/components.rs:10-70)                       *)
(***************************************************************************)
\* const SPARSE_MAGIC: [u8; 4] = [0x3A, 0xFF, 0x26, 0xED];
SPARSE_MAGIC == <<58, 255, 38, 237>>

\* let images = vec!["super.img", "userdata.img"];
images == <<"super.img", "userdata.img">>

\* A file is its bytes; Absent is a path with no file.
Absent == <<-1>>

\* Files tried: sparse (the magic, with and without data after it), raw,
\* raw with the magic's bytes reversed or its last byte changed, shorter
\* than 4 bytes, empty, and missing.
RawContents == { <<0, 0, 0, 0, 7>>, <<237, 38, 255, 58, 1>>, <<58, 255, 38, 236, 1>> }
FileContents ==
    RawContents \cup
    { <<58, 255, 38, 237, 1>>, <<58, 255, 38, 237>>, <<58, 255, 38>>, <<>>, Absent }

\* What the converter may leave at <image>.tmp: nothing, or a raw image.
ToolOutputs == { Absent, <<0, 0, 0, 0, 7>>, <<9, 9, 9, 9>> }

\* How often the normalizer is run over the same directory.
MaxRuns == 2

\* buf == SPARSE_MAGIC, on the 4 bytes read_exact filled
HasSparseMagicPrefix3(f) == SubSeq(f, 1, 3) = SubSeq(SPARSE_MAGIC, 1, 3)
HasSparseMagic(f) == SubSeq(f, 1, 4) = SPARSE_MAGIC

\* is_sparse: File::open fails on a missing file, read_exact on a file of
\* fewer than 4 bytes.
is_sparse(f) ==
    IF f = Absent \/ Len(f) < 4 THEN "err"
    ELSE IF HasSparseMagic(f) THEN "true"
    ELSE "false"

SparseInit ==
    /\ build \in Builds
    /\ files \in [1..Len(images) -> FileContents]
    /\ tmp_files \in [1..Len(images) -> {Absent, <<5, 5>>}]
    /\ tool_calls = [i \in 1..Len(images) |-> 0]
    /\ img = 1
    /\ runs = 0
    /\ tpc = "run"
    /\ BlockIdle /\ ImageIdle /\ VbIdle /\ PipeIdle

\* One iteration of `for img in images`: is_sparse(..)?, and for a sparse
\* image call_simg2img(..)?: the tool is run (a tool that cannot be started
\* ends the process), its exit status is not looked at, and <image>.tmp is
\* renamed over the image.
SparseStep ==
    /\ tpc = "run"
    /\ img <= Len(images)
    /\ LET sparse == is_sparse(files[img]) IN
       CASE sparse = "err" ->
              /\ tpc' = "err"
              /\ UNCHANGED <<files, tmp_files, tool_calls, img, nonzero_at>>
         [] sparse = "false" ->
              /\ img' = img + 1
              /\ UNCHANGED <<files, tmp_files, tool_calls, tpc, nonzero_at>>
         [] OTHER ->
              \E spawned \in BOOLEAN, status \in {0, 1}, output \in ToolOutputs :
                IF ~spawned
                THEN /\ tpc' = "exit"
                     /\ UNCHANGED <<files, tmp_files, tool_calls, img, nonzero_at>>
                ELSE LET tmp == IF output = Absent THEN tmp_files[img] ELSE output IN
                     /\ tool_calls' = [tool_calls EXCEPT ![img] = @ + 1]
                     /\ nonzero_at' = IF status # 0 /\ nonzero_at = 0
                                      THEN Len(started) ELSE nonzero_at
                     /\ IF tmp = Absent
                        THEN /\ tpc' = "err"
                             /\ UNCHANGED <<files, tmp_files, img>>
                        ELSE /\ files' = [files EXCEPT ![img] = tmp]
                             /\ tmp_files' = [tmp_files EXCEPT ![img] = Absent]
                             /\ img' = img + 1
                             /\ UNCHANGED tpc
    /\ UNCHANGED <<runs, build, blockVars, imageVars, vbVars>>
    /\ UNCHANGED <<started, completed, pc, res, tmp_dir_exists, tmp_dir_guard>>

\* Ok(())
SparseFinish ==
    /\ tpc = "run"
    /\ img > Len(images)
    /\ tpc' = "ok"
    /\ runs' = runs + 1
    /\ UNCHANGED <<files, tmp_files, tool_calls, img>>
    /\ UNCHANGED <<build, blockVars, imageVars, vbVars, pipeVars>>

\* The normalizer is run again over the same directory.
SparseRerun ==
    /\ tpc = "ok"
    /\ runs < MaxRuns
    /\ tpc' = "run"
    /\ img' = 1
    /\ UNCHANGED <<files, tmp_files, tool_calls, runs>>
    /\ UNCHANGED <<build, blockVars, imageVars, vbVars, pipeVars>>

SparseNext == SparseStep \/ SparseFinish \/ SparseRerun

SpecSparse == SparseInit /\ [][SparseNext]_vars

IsRawFile(f) == f # Absent /\ Len(f) >= 4 /\ SubSeq(f, 1, 4) # <<58, 255, 38, 237>>

\* C8: on an image whose first 4 bytes are not the sparse magic the
\* normalizer is a no-op: no step of it invokes the converter for that image,
\* creates or renames its temporary sibling, or changes its bytes; so a
\* second run on an already-raw file changes nothing.
C8_RawImageUntouched ==
    [][\A i \in 1..Len(images) :
          IsRawFile(files[i]) =>
              /\ files'[i] = files[i]
              /\ tmp_files'[i] = tmp_files[i]
              /\ tool_calls'[i] = tool_calls[i]]_vars

\* Both images went through two runs: one was raw from the start and near
\* the magic, the other was sparse and converted by the first run.
C8_Witness ==
    /\ runs = 2
    /\ files[1] = <<58, 255, 38, 236, 1>>
    /\ tool_calls[1] = 0
    /\ tool_calls[2] = 1
    /\ IsRawFile(files[2])

(***************************************************************************)
(* create_disk_images (src/main.rs:84-139)                                 *)
(***************************************************************************)
\* The calls of create_disk_images, in source order.
StageOrder ==
    << "transform_sparse_images",                        \* line 112
       "create_disk_image(system)",                      \* line 116
       "create_partitions(system)",                      \* line 117
       "TempDir::new",                                   \* lines 119-120
       "create_uboot",                                   \* line 123
       "create_vbmeta",                                  \* line 124
       "create_bootconfig",                              \* line 125
       "create_disk_image(props)",                       \* line 128
       "create_partitions(props)",                       \* line 130
       "create_bootconfig(virgl)",                       \* line 132
       "create_disk_image(virgl_props)",                 \* line 134
       "create_partitions(virgl_props)" >>               \* line 136

StageIndex(stage) == CHOOSE i \in 1..Len(StageOrder) : StageOrder[i] = stage

\* What follows a call: `?` returns on Err (main prints the failure and
\* exits with -1), process::exit and a panic end the process, a loop that
\* never returns keeps it; Ok goes on to the next call, and past the last
\* one create_disk_images returns Ok(()).
PropagateSwallowErr(stage, outcome) ==
    CASE outcome \in {"ok", "err"} ->
             IF StageIndex(stage) = Len(StageOrder) THEN "ok" ELSE "running"
      [] outcome = "exit"  -> "exited"
      [] outcome = "panic" -> "panicked"
      [] OTHER             -> "hung"
Propagate(stage, outcome) ==
    CASE outcome = "ok" ->
             IF StageIndex(stage) = Len(StageOrder) THEN "ok" ELSE "running"
      [] outcome = "err"   -> "failed"
      [] outcome = "exit"  -> "exited"
      [] outcome = "panic" -> "panicked"
      [] OTHER             -> "hung"

\* A call made and ended with `outcome`.
StageEnds(stage, outcome) ==
    /\ completed' = IF outcome = "ok" THEN Append(completed, stage) ELSE completed
    /\ res' = Propagate(stage, outcome)
    /\ pc' = IF Propagate(stage, outcome) = "running"
             THEN StageOrder[StageIndex(stage) + 1] ELSE "end"

StageRuns(stage, outcome) ==
    /\ started' = Append(started, stage)
    /\ StageEnds(stage, outcome)

\* A tool run by Command::output(): it cannot be started (process::exit(-1)
\* in the Err arm), or it ran and left an exit status that `Ok(output) =>
\* output` never reads.
ToolRuns == {"not_started", "status_0", "status_1"}

\* The first call in which a tool exited with a non-zero status.
NoteStatus(runs_of_tools) ==
    nonzero_at' = IF nonzero_at = 0 /\ "status_1" \in runs_of_tools
                  THEN Len(started) + 1 ELSE nonzero_at

PipeInit ==
    /\ build \in Builds
    /\ files \in [1..Len(images) -> FileContents]
    /\ tmp_files = [i \in 1..Len(images) |-> Absent]
    /\ tool_calls = [i \in 1..Len(images) |-> 0]
    /\ img = 1
    /\ runs = 0
    /\ tpc = "idle"
    /\ started = <<>>
    /\ completed = <<>>
    /\ pc = "transform_sparse_images"
    /\ res = "running"
    /\ tmp_dir_exists = FALSE
    /\ tmp_dir_guard = FALSE
    /\ nonzero_at = 0
    /\ BlockIdle /\ ImageIdle /\ VbIdle

pipeRest == <<build, blockVars, imageVars, vbVars>>

\* transform_sparse_images(&cvd_dir, &envs) is entered (line 112)
TransformBegin ==
    /\ res = "running"
    /\ pc = "transform_sparse_images"
    /\ tpc = "idle"
    /\ tpc' = "run"
    /\ started' = Append(started, pc)
    /\ UNCHANGED <<files, tmp_files, tool_calls, img, runs>>
    /\ UNCHANGED <<completed, pc, res, tmp_dir_exists, tmp_dir_guard, nonzero_at>>
    /\ UNCHANGED pipeRest

\* .map_err(Error::TransformSparse)?
TransformEnd ==
    /\ res = "running"
    /\ pc = "transform_sparse_images"
    /\ tpc \in {"ok", "err", "exit"}
    /\ StageEnds(pc, tpc)
    /\ UNCHANGED <<started, tmp_dir_exists, tmp_dir_guard, nonzero_at>>
    /\ UNCHANGED <<sparseVars, pipeRest>>

\* What a component file of some size makes of create_disk_image: Ok, or
\* the panic or the endless loop of best_block_size.
DiskImageOutcome(sz) ==
    LET r == best_block_size(sz) IN
    CASE r.kind = "ret" -> "ok" [] r.kind = "panic" -> "panic" [] OTHER -> "hang"

\* create_disk_image(..).map_err(Error::DiskImage)? (lines 116, 128, 134):
\* an I/O error, or what the component sizes make of it.
CreateDiskImage ==
    /\ res = "running"
    /\ pc \in {"create_disk_image(system)", "create_disk_image(props)",
               "create_disk_image(virgl_props)"}
    /\ \E outcome \in {"err"} \cup { DiskImageOutcome(sz) : sz \in ComponentSizes } :
         StageRuns(pc, outcome)
    /\ UNCHANGED <<tmp_dir_exists, tmp_dir_guard, nonzero_at, sparseVars, pipeRest>>

\* create_partitions(parts, ..).map_err(Error::Partitions)? (lines 117, 130,
\* 136)
CreatePartitions ==
    /\ res = "running"
    /\ pc \in {"create_partitions(system)", "create_partitions(props)",
               "create_partitions(virgl_props)"}
    /\ \E outcome \in {"ok", "err"} : StageRuns(pc, outcome)
    /\ UNCHANGED <<tmp_dir_exists, tmp_dir_guard, nonzero_at, sparseVars, pipeRest>>

\* let tmp_dir = TempDir::new("cvd2img").unwrap();
\* let tmp_dir_path = tmp_dir.into_path()...: into_path gives up the TempDir
\* without deleting the directory, so nothing is left to delete it on drop.
CreateTmpDir ==
    /\ res = "running"
    /\ pc = "TempDir::new"
    /\ \E outcome \in {"ok", "panic"} :
         /\ StageRuns(pc, outcome)
         /\ tmp_dir_exists' = (outcome = "ok")
         /\ tmp_dir_guard' = FALSE
    /\ UNCHANGED <<nonzero_at, sparseVars, pipeRest>>

\* The outcome of a generator: an I/O `?`, then its tools in order (the first
\* that cannot be started ends the process), then the rest of the function.
GeneratorOutcome(io_ok, tools, rest) ==
    IF ~io_ok THEN "err"
    ELSE IF \E i \in 1..Len(tools) : tools[i] = "not_started" THEN "exit"
    ELSE rest

\* The tools that ran, up to the first that could not be started.
RECURSIVE ToolsRun(_)
ToolsRun(tools) ==
    IF tools = <<>> \/ Head(tools) = "not_started" THEN {}
    ELSE {Head(tools)} \cup ToolsRun(Tail(tools))

\* create_uboot (components.rs:72-141): the input file, mkenvimage_slim,
\* avbtool add_hash_footer, Ok(())
CreateUboot ==
    /\ res = "running"
    /\ pc = "create_uboot"
    /\ \E io_ok \in BOOLEAN, mkenvimage \in ToolRuns, avbtool \in ToolRuns :
         LET tools == IF io_ok THEN <<mkenvimage, avbtool>> ELSE <<>> IN
         /\ StageRuns(pc, GeneratorOutcome(io_ok, tools, "ok"))
         /\ NoteStatus(ToolsRun(tools))
    /\ UNCHANGED <<tmp_dir_exists, tmp_dir_guard, sparseVars, pipeRest>>

\* create_vbmeta (components.rs:143-188): avbtool make_vbmeta_image, then
\* the padding of the file it left
CreateVbmeta ==
    /\ res = "running"
    /\ pc = "create_vbmeta"
    /\ \E avbtool \in ToolRuns, io_ok \in BOOLEAN, len \in SignedLengths :
         LET pad == IF io_ok THEN PadLen(build, len).kind ELSE "err" IN
         /\ StageRuns(pc, GeneratorOutcome(TRUE, <<avbtool>>, pad))
         /\ NoteStatus(ToolsRun(<<avbtool>>))
    /\ UNCHANGED <<tmp_dir_exists, tmp_dir_guard, sparseVars, pipeRest>>

\* create_bootconfig (components.rs:190-297; main.rs lines 125 and 132): the
\* bootconfig file, avbtool add_hash_footer, Ok(())
CreateBootconfig ==
    /\ res = "running"
    /\ pc \in {"create_bootconfig", "create_bootconfig(virgl)"}
    /\ \E io_ok \in BOOLEAN, avbtool \in ToolRuns :
         LET tools == IF io_ok THEN <<avbtool>> ELSE <<>> IN
         /\ StageRuns(pc, GeneratorOutcome(io_ok, tools, "ok"))
         /\ NoteStatus(ToolsRun(tools))
    /\ UNCHANGED <<tmp_dir_exists, tmp_dir_guard, sparseVars, pipeRest>>

PipeNext ==
    \/ TransformBegin \/ SparseStep \/ SparseFinish \/ TransformEnd
    \/ CreateDiskImage \/ CreatePartitions \/ CreateTmpDir
    \/ CreateUboot \/ CreateVbmeta \/ CreateBootconfig

SpecPipeline == PipeInit /\ [][PipeNext]_vars

IsPrefix(s, t) == Len(s) <= Len(t) /\ s = SubSeq(t, 1, Len(s))

Failures == {"failed", "exited", "panicked", "hung"}

\* C5: a tool that exits with a non-zero status is fatal: the call in which
\* it ran is the last call made, and the run does not end in success.
C5_NonZeroExitIsFatal ==
    nonzero_at > 0 => (Len(started) = nonzero_at /\ res # "ok")

\* C6: the calls are made in the fixed order; a call is made only after
\* every earlier one has completed successfully; once one fails no other is
\* made and the run ends in failure, and it ends in success only after all.
C6_StagesInOrder ==
    /\ [](/\ IsPrefix(started, StageOrder)
          /\ IsPrefix(completed, started)
          /\ Len(started) <= Len(completed) + 1
          /\ (res = "ok" => completed = StageOrder)
          /\ (res \in Failures => Len(started) = Len(completed) + 1))
    /\ [][res # "running" => UNCHANGED <<started, completed, res>>]_vars

\* The properties image pass failed after the seven calls before it.
C6_Witness ==
    /\ res = "failed"
    /\ Len(completed) = 7
    /\ Len(started) = 8
    /\ started[8] = "create_disk_image(props)"

\* C7: in every run that created the temporary directory, the directory no
\* longer exists once create_disk_images has returned, with Ok or with Err.
C7_TmpDirCleanedUp ==
    (/\ res \in {"ok", "failed"}
     /\ \E i \in 1..Len(completed) : completed[i] = "TempDir::new")
        => ~tmp_dir_exists

====
